---- MODULE Spec2Model ----
(***************************************************************************)
(* A model of the transaction ledger of src/backend/main.go: the startup   *)
(* of main (connection retry loop, schema creation, listener), the HTTP    *)
(* handlers over the transactions table, and the React form that calls     *)
(* them.                                                                   *)
(*                                                                         *)
(* Amounts are decimal numbers.  A Go float64 amount is written            *)
(* [units, mills], the value units + mills/1000 with mills in 0..999; a    *)
(* NUMERIC(10,2) column value is written [units, cents].                   *)
(***************************************************************************)
EXTENDS Integers, Sequences, FiniteSets, TLC

VARIABLES
    pc,         \* where main is: "connect", "sleep", "schema", "listen", "serving", "fatal"
    i,          \* the retry loop's counter
    err,        \* main's err: "nil", "open", "ping", "exec", "listen"
    db,         \* the handle: "nil", "opened" (sql.Open only), "connected" (Ping succeeded)
    attempts,   \* connection attempts made so far
    slept,      \* seconds spent in time.Sleep so far
    schema,     \* whether the CREATE TABLE IF NOT EXISTS statement has run
    fatalMsg,   \* which log.Fatal ended the process: "none", "connect", "table", "listen"
    table,      \* the rows of the transactions table
    nextId,     \* the next value of the id column's sequence
    now,        \* the database clock (CURRENT_TIMESTAMP)
    req,        \* the request the server is answering
    resp,       \* the answer to it
    fault,      \* the driver error met while handling it ("none" when the statements ran)
    sent,       \* per id: the body a POST was accepted with, until the id is updated or deleted
    deleted,    \* the ids a DELETE has answered 200 for
    description, amount, type, editId,  \* the form's state (useState)
    transactions,                       \* the list the page shows
    inflight,   \* handleSubmit calls waiting on their fetch
    fetching,   \* whether a fetchTransactions call is waiting on its fetch
    uiLog       \* what handleSubmit is doing: the request sent, the response or failure met

mainVars == <<pc, i, err, db, attempts, slept, schema, fatalMsg>>
dbVars   == <<table, nextId, now>>
httpVars == <<req, resp, fault, sent, deleted>>
uiVars   == <<description, amount, type, editId, transactions, inflight, fetching, uiLog>>
vars     == <<mainVars, dbVars, httpVars, uiVars>>

----------------------------------------------------------------------------
(* Bounds of the model *)

MaxId  == 2     \* sequence values the id column hands out
MaxNow == 2     \* readings of the database clock
MaxInflight == 1 \* handleSubmit calls in flight at once

(* Program constants *)

MaxAttempts      == 10  \* for i := 0; i < 10; i++
RetryDelay       == 5   \* time.Sleep(5 * time.Second)
NumericPrecision == 10  \* amount NUMERIC(10, 2)
NumericScale     == 2

----------------------------------------------------------------------------
(* Values *)

RECURSIVE Pow10(_)
Pow10(n) == IF n = 0 THEN 1 ELSE 10 * Pow10(n - 1)

Float(u, m) == [units |-> u, mills |-> m]

\* The zero value of Transaction (var t Transaction).
ZeroTransaction ==
    [ID |-> 0, Description |-> "", Amount |-> Float(0, 0), Type |-> "", CreatedAt |-> 0]

\* Request bodies: ok is whether json.Decode accepts the body.
Body(d, a, ty) == [ok |-> TRUE, description |-> d, amount |-> a, type |-> ty]
Malformed      == [ok |-> FALSE, description |-> "", amount |-> Float(0, 0), type |-> ""]

\* The bodies the model sends: every combination of the valid fields, one body
\* for each way of failing the validation, and one that fails it in every way.
BigAmount    == Float(Pow10(NumericPrecision - NumericScale) - 1, 995)
Descriptions == {"a"}
Amounts      == {Float(0, 4), Float(1, 230), BigAmount}
Types        == {"income", "expense"}
ValidBodies  == {Body(d, a, ty) : d \in Descriptions, a \in Amounts, ty \in Types}
InvalidBodies ==
    {Body("", Float(1, 230), "income"), Body("a", Float(0, 0), "income"),
     Body("a", Float(-1, 0), "expense"), Body("a", Float(1, 230), "other"),
     Body("", Float(0, 0), "")}
Bodies       == ValidBodies \cup InvalidBodies \cup {Malformed}

\* json.Decode into a Transaction.
Decode(b) ==
    [ZeroTransaction EXCEPT !.Description = b.description, !.Amount = b.amount,
                            !.Type = b.type]

\* t.Amount <= 0, for a float64.
NotPositive(a) == a.units < 0 \/ (a.units = 0 /\ a.mills = 0)

\* The validation of createTransaction and updateTransaction ("Validación básica").
ValidWithoutAmount(t) ==
    ~(t.Description = "" \/ (t.Type # "income" /\ t.Type # "expense"))
Valid(t) ==
    ~(t.Description = "" \/ NotPositive(t.Amount)
        \/ (t.Type # "income" /\ t.Type # "expense"))

----------------------------------------------------------------------------
(* The transactions table *)

\* A positive decimal stored in the amount column: rounded to NumericScale
\* decimals, half away from zero.
ToNumeric(a) ==
    LET step == Pow10(3 - NumericScale)
        c    == (a.mills + step \div 2) \div step
    IN  IF c = Pow10(NumericScale)
        THEN [units |-> a.units + 1, cents |-> 0]
        ELSE [units |-> a.units, cents |-> c]

\* Whether the rounded value has at most NumericPrecision digits ("numeric
\* field overflow" otherwise).
NumericFits(n) == n.units < Pow10(NumericPrecision - NumericScale)

\* A column value read back into a float64.
FromNumeric(n) == Float(n.units, n.cents * Pow10(3 - NumericScale))

\* rows.Scan / row.Scan of the five columns into a Transaction.
ScanRow(row) ==
    [ID |-> row.id, Description |-> row.description,
     Amount |-> FromNumeric(row.amount), Type |-> row.type,
     CreatedAt |-> row.created_at]

RowsWithId(id) == {row \in table : row.id = id}

\* res.RowsAffected() of an UPDATE or DELETE ... WHERE id.
RowsAffectedOne(id)  == 1
RowsAffectedZero(id) == 0
RowsAffected(id) == Cardinality(RowsWithId(id))

\* A row that takes the lowest id no row has, not the sequence's next value.
InsertRowReusingId(t) ==
    [id |-> CHOOSE n \in 1..(Cardinality(table) + 1) : RowsWithId(n) = {},
     description |-> t.Description, amount |-> ToNumeric(t.Amount),
     type |-> t.Type, created_at |-> now]

\* INSERT INTO transactions(description, amount, type): id from the sequence,
\* created_at from DEFAULT CURRENT_TIMESTAMP.
InsertRow(t) ==
    [id |-> nextId, description |-> t.Description, amount |-> ToNumeric(t.Amount),
     type |-> t.Type, created_at |-> now]

\* UPDATE transactions SET description, amount, type WHERE id.
UpdateRows(t, id) ==
    {IF row.id = id
        THEN [row EXCEPT !.description = t.Description,
                         !.amount = ToNumeric(t.Amount), !.type = t.Type]
        ELSE row : row \in table}

\* DELETE FROM transactions WHERE id.
DeleteRows(id) == {row \in table : row.id # id}

\* The orders in which SELECT ... ORDER BY created_at DESC may return the rows:
\* every arrangement of the table that never goes from an earlier created_at to
\* a later one (rows with equal created_at come in any order).
OrderByCreatedAtDesc(rows) ==
    {s \in [1..Cardinality(rows) -> rows] :
        /\ \A a, b \in 1..Cardinality(rows) : a # b => s[a] # s[b]
        /\ \A a, b \in 1..Cardinality(rows) :
                a < b => s[a].created_at >= s[b].created_at}

----------------------------------------------------------------------------
(* Requests and responses *)

Methods == {"GET", "POST", "PUT", "DELETE", "OPTIONS", "PATCH"}

\* A URL path, as strings.Split(path, "/") gives it.
ListPath    == <<"", "transactions">>
CreatePath  == <<"", "transaction">>
ByIdPath(s) == <<"", "transaction", s>>

IdStrings == {ToString(n) : n \in 1..MaxId}
Segments  == {"", "abc"} \cup IdStrings

Request(m, p, b) == [method |-> m, path |-> p, body |-> b]
NoRequest == Request("", <<>>, Malformed)

Response(status, kind, text, obj, arr) ==
    [status |-> status, kind |-> kind, text |-> text, obj |-> obj, arr |-> arr]
NoResponse == Response(0, "none", "", ZeroTransaction, <<>>)

NoBody == Malformed

\* splitPath: the parts of the path that are not empty.
splitPath(path) == SelectSeq(path, LAMBDA p : p # "")

\* strconv.Atoi on the numerals the model uses.
AtoiOk(s) == \E n \in -1..(MaxId + 1) : ToString(n) = s
Atoi(s)   == CHOOSE n \in -1..(MaxId + 1) : ToString(n) = s

\* A Go slice of Transaction: nil or not, and its elements.
EmptySlice     == [nil |-> FALSE, elems |-> <<>>]     \* []Transaction{}
GoAppend(s, x) == [nil |-> FALSE, elems |-> Append(s.elems, x)]

\* for rows.Next() { Scan; append }, over the first k rows delivered.
RECURSIVE ScanLoop(_, _, _, _)
ScanLoop(rows, j, k, acc) ==
    IF j > k THEN acc ELSE ScanLoop(rows, j + 1, k, GoAppend(acc, ScanRow(rows[j])))

Answer(r, rs, f) == req' = r /\ resp' = rs /\ fault' = f

\* http.Error(w, msg, status)
HttpError(r, msg, status, f) ==
    Answer(r, Response(status, "text", msg, ZeroTransaction, <<>>), f)

\* json.NewEncoder(w).Encode(v)
EncodeObject(r, status, t) == Answer(r, Response(status, "object", "", t, <<>>), "none")
EncodeSlice(r, s, f) ==
    Answer(r, Response(200, IF s.nil THEN "null" ELSE "array", "", ZeroTransaction,
                       s.elems), f)

----------------------------------------------------------------------------
(* The handlers.  r is the request; f is the driver error the handler meets, *)
(* if it gets as far as the statement that f names.                          *)

Forget(id) == [x \in DOMAIN sent |-> IF x = id THEN NoBody ELSE sent[x]]

\* Handler para /transactions.  order is the order the query returns the rows
\* in; k is the row at which f strikes.
getTransactions(r, f, order, k) ==
    /\ UNCHANGED <<dbVars, sent, deleted>>
    /\ IF r.method # "GET"
         THEN HttpError(r, "Método no permitido", 405, "none")
       ELSE IF f = "query"
         THEN HttpError(r, "driver error", 500, f)
       ELSE IF f = "scan" /\ k \in 1..Len(order)
         THEN HttpError(r, "driver error", 500, f)
       ELSE IF f = "next" /\ k \in 0..Len(order)
         \* rows.Next() returns false on an error as at the end of the rows, and
         \* rows.Err() is not looked at.
         THEN EncodeSlice(r, ScanLoop(order, 1, k, EmptySlice), f)
       ELSE EncodeSlice(r, ScanLoop(order, 1, Len(order), EmptySlice), "none")

\* Whether createTransaction gets as far as the INSERT statement.
ReachesInsert(r, f) ==
    r.method = "POST" /\ r.body.ok /\ Valid(Decode(r.body)) /\ f # "prepare"

\* Handler para /transaction.
createTransaction(r, f) ==
    LET t == Decode(r.body) IN
    IF r.method # "POST"
      THEN HttpError(r, "Método no permitido", 405, "none")
           /\ UNCHANGED <<dbVars, sent, deleted>>
    ELSE IF ~r.body.ok
      THEN HttpError(r, "json error", 400, "none")
           /\ UNCHANGED <<dbVars, sent, deleted>>
    ELSE IF ~Valid(t)
      THEN HttpError(r, "Descripción, monto o tipo inválido", 400, "none")
           /\ UNCHANGED <<dbVars, sent, deleted>>
    ELSE IF f = "prepare"
      THEN HttpError(r, "driver error", 500, f)
           /\ UNCHANGED <<dbVars, sent, deleted>>
    ELSE IF f = "exec" \/ ~NumericFits(ToNumeric(t.Amount))
      THEN /\ HttpError(r, "driver error", 500,
                        IF f = "exec" THEN f ELSE "overflow")
           /\ UNCHANGED <<dbVars, sent, deleted>>
    ELSE /\ table' = table \cup {InsertRow(t)}
         /\ nextId' = nextId + 1
         /\ sent' = [sent EXCEPT ![nextId] = r.body]
         /\ EncodeObject(r, 201, [t EXCEPT !.ID = nextId, !.CreatedAt = now])
         /\ UNCHANGED <<now, deleted>>

\* Handler para /transaction/{id} (GET).
getTransactionByID(r, id, f) ==
    /\ UNCHANGED <<dbVars, sent, deleted>>
    /\ IF f = "query"
         THEN HttpError(r, "driver error", 500, f)
       ELSE IF RowsWithId(id) = {}
         THEN HttpError(r, "Transacción no encontrada", 404, "none")
       ELSE EncodeObject(r, 200, ScanRow(CHOOSE row \in RowsWithId(id) : TRUE))

\* Handler para /transaction/{id} (PUT).  fold is whether the database checks
\* the amount against the column when it plans the statement, before it looks
\* for the row.  (res.RowsAffected() returns no error with this driver.)
updateTransaction(r, id, f, fold) ==
    LET t == Decode(r.body) IN
    IF ~r.body.ok
      THEN HttpError(r, "json error", 400, "none")
           /\ UNCHANGED <<dbVars, sent, deleted>>
    ELSE IF ~Valid(t)
      THEN HttpError(r, "Descripción, monto o tipo inválido", 400, "none")
           /\ UNCHANGED <<dbVars, sent, deleted>>
    ELSE IF f = "exec"
      THEN HttpError(r, "driver error", 500, f)
           /\ UNCHANGED <<dbVars, sent, deleted>>
    ELSE IF ~NumericFits(ToNumeric(t.Amount)) /\ (RowsWithId(id) # {} \/ fold)
      THEN HttpError(r, "driver error", 500, "overflow")
           /\ UNCHANGED <<dbVars, sent, deleted>>
    ELSE /\ table' = UpdateRows(t, id)
         /\ UNCHANGED <<nextId, now, deleted>>
         /\ IF RowsAffected(id) = 0
              THEN /\ HttpError(r, "Transacción no encontrada", 404, "none")
                   /\ UNCHANGED sent
              ELSE /\ sent' = Forget(id)
                   /\ Answer(r, Response(200, "text", "actualizada correctamente",
                                         ZeroTransaction, <<>>), "none")

\* Handler para /transaction/{id} (DELETE).
deleteTransaction(r, id, f) ==
    IF f = "exec"
      THEN HttpError(r, "driver error", 500, f)
           /\ UNCHANGED <<dbVars, sent, deleted>>
    ELSE /\ table' = DeleteRows(id)
         /\ UNCHANGED <<nextId, now>>
         /\ IF RowsAffected(id) = 0
              THEN /\ HttpError(r, "Transacción no encontrada", 404, "none")
                   /\ UNCHANGED <<sent, deleted>>
              ELSE /\ sent' = Forget(id)
                   /\ deleted' = deleted \cup {id}
                   /\ Answer(r, Response(200, "text", "eliminada correctamente",
                                         ZeroTransaction, <<>>), "none")

\* Handler genérico para /transaction/{id}.
handleTransactionByID(r, f, fold) ==
    LET pathParts == splitPath(r.path)
        idStr     == pathParts[Len(pathParts)]
    IN
    IF Len(pathParts) < 2
      THEN HttpError(r, "ID de transacción no proporcionado", 400, "none")
           /\ UNCHANGED <<dbVars, sent, deleted>>
    ELSE IF ~AtoiOk(idStr)
      THEN HttpError(r, "ID de transacción inválido", 400, "none")
           /\ UNCHANGED <<dbVars, sent, deleted>>
    ELSE CASE r.method = "PUT"    -> updateTransaction(r, Atoi(idStr), f, fold)
           [] r.method = "DELETE" -> deleteTransaction(r, Atoi(idStr), f)
           [] r.method = "GET"    -> getTransactionByID(r, Atoi(idStr), f)
           [] OTHER -> HttpError(r, "Método no permitido", 405, "none")
                       /\ UNCHANGED <<dbVars, sent, deleted>>

\* corsHandler(h): a preflight request is answered without calling h (the
\* headers it sets are left out).
corsHandler(r, h) ==
    IF r.method = "OPTIONS"
      THEN Answer(r, Response(200, "none", "", ZeroTransaction, <<>>), "none")
           /\ UNCHANGED <<dbVars, sent, deleted>>
      ELSE h

----------------------------------------------------------------------------
(* main: the connection retry loop, the schema, the listener *)

\* The loop's condition, i < 10.
LoopContinuesInclusive(n) == n <= MaxAttempts
LoopContinues(n) == n < MaxAttempts

\* One pass of the loop body up to the break: sql.Open, then db.Ping.
\* outcome is what the database does: "open" and "ping" are the two failures.
Connect ==
    /\ pc = "connect"
    /\ \E outcome \in {"open", "ping", "ok"} :
          /\ attempts' = attempts + 1
          /\ err' = IF outcome = "ok" THEN "nil" ELSE outcome
          /\ db' = CASE outcome = "open" -> "nil"
                     [] outcome = "ping" -> "opened"
                     [] OTHER            -> "connected"
          /\ pc' = IF outcome = "ok" THEN "afterloop" ELSE "sleep"
    /\ UNCHANGED <<i, slept, schema, fatalMsg, dbVars, httpVars, uiVars>>

\* log.Printf, time.Sleep(5 * time.Second), i++ and the loop's test.
Sleep ==
    /\ pc = "sleep"
    /\ slept' = slept + RetryDelay
    /\ i' = i + 1
    /\ pc' = IF LoopContinues(i + 1) THEN "connect" ELSE "afterloop"
    /\ UNCHANGED <<err, db, attempts, schema, fatalMsg, dbVars, httpVars, uiVars>>

\* if err != nil { log.Fatalf(...) } after the loop.
AfterLoop ==
    /\ pc = "afterloop"
    /\ IF err # "nil"
         THEN pc' = "fatal" /\ fatalMsg' = "connect"
         ELSE pc' = "schema" /\ UNCHANGED fatalMsg
    /\ UNCHANGED <<i, err, db, attempts, slept, schema, dbVars, httpVars, uiVars>>

\* db.Exec(createTableSQL) and its check.
CreateTable ==
    /\ pc = "schema"
    /\ \E ok \in BOOLEAN :
          IF ok
            THEN /\ schema' = TRUE /\ pc' = "listen"
                 /\ UNCHANGED <<err, fatalMsg>>
            ELSE /\ err' = "exec" /\ pc' = "fatal" /\ fatalMsg' = "table"
                 /\ UNCHANGED schema
    /\ UNCHANGED <<i, db, attempts, slept, dbVars, httpVars, uiVars>>

\* log.Fatal(http.ListenAndServe(...)): the listener starts, or returns an error.
ListenAndServe ==
    /\ pc = "listen"
    /\ \E ok \in BOOLEAN :
          IF ok
            THEN pc' = "serving" /\ UNCHANGED <<err, fatalMsg>>
            ELSE err' = "listen" /\ pc' = "fatal" /\ fatalMsg' = "listen"
    /\ UNCHANGED <<i, db, attempts, slept, schema, dbVars, httpVars, uiVars>>

----------------------------------------------------------------------------
(* req, resp, fault and uiLog show one exchange at a time: a handler (or      *)
(* handleSubmit) fills them in when it runs, and they are cleared when it has *)
(* returned, before the next one runs.                                        *)

Idle == req = NoRequest /\ uiLog = [event |-> "none", method |-> "", status |-> 0]

\* The handler has returned and its response has been delivered.
Finish ==
    /\ ~Idle
    /\ req' = NoRequest /\ resp' = NoResponse /\ fault' = "none"
    /\ uiLog' = [event |-> "none", method |-> "", status |-> 0]
    /\ UNCHANGED <<mainVars, dbVars, sent, deleted>>
    /\ UNCHANGED <<description, amount, type, editId, transactions, inflight, fetching>>

----------------------------------------------------------------------------
(* Requests from any HTTP client *)

BodiesFor(m, sends) == IF m \in sends THEN Bodies ELSE {NoBody}

\* The driver errors a GET /transactions can meet, with the row each strikes at.
ListFaults(m) ==
    IF m # "GET" THEN {<<"none", 0>>}
    ELSE {<<"none", 0>>, <<"query", 0>>}
            \cup {<<"scan", k>> : k \in 1..Cardinality(table)}
            \cup {<<"next", k>> : k \in 0..Cardinality(table)}

ListTransactions ==
    /\ pc = "serving" /\ Idle
    /\ \E m \in Methods :
        \E fk \in ListFaults(m), order \in OrderByCreatedAtDesc(table) :
          LET r == Request(m, ListPath, NoBody)
          IN  corsHandler(r, getTransactions(r, fk[1], order, fk[2]))
    /\ UNCHANGED <<mainVars, uiVars>>

\* The driver errors a request with a valid body can meet.
WriteFaults(r, fs) ==
    IF r.body.ok /\ Valid(Decode(r.body)) THEN {"none"} \cup fs ELSE {"none"}

\* Whether the database checks an amount that does not fit the column before it
\* looks for the row to update: either, when the question arises.
Folds(r, f) ==
    IF r.method = "PUT" /\ r.body.ok /\ Valid(Decode(r.body)) /\ f = "none"
            /\ ~NumericFits(ToNumeric(r.body.amount))
        THEN BOOLEAN ELSE {FALSE}

CreateTransaction ==
    /\ pc = "serving" /\ Idle
    /\ \E m \in Methods :
        \E b \in BodiesFor(m, {"POST"}) :
          LET r == Request(m, CreatePath, b) IN
          \E f \in WriteFaults(r, {"prepare", "exec"}) :
              /\ ReachesInsert(r, f) => nextId <= MaxId
              /\ corsHandler(r, createTransaction(r, f))
    /\ UNCHANGED <<mainVars, uiVars>>

ByIdPaths == {ByIdPath(s) : s \in Segments}

\* The driver errors a request by id can meet.
ByIdFaults(r) ==
    CASE r.method = "GET"    -> {"none", "query"}
      [] r.method = "DELETE" -> {"none", "exec"}
      [] r.method = "PUT"    -> WriteFaults(r, {"exec"})
      [] OTHER               -> {"none"}

TransactionByID ==
    /\ pc = "serving" /\ Idle
    /\ \E m \in Methods, p \in ByIdPaths :
        \E b \in BodiesFor(m, {"PUT"}) :
          LET r == Request(m, p, b) IN
          \E f \in ByIdFaults(r) :
            \E fold \in Folds(r, f) :
              corsHandler(r, handleTransactionByID(r, f, fold))
    /\ UNCHANGED <<mainVars, uiVars>>

\* The database clock moves on.
Tick ==
    /\ pc = "serving" /\ Idle
    /\ now < MaxNow
    /\ now' = now + 1
    /\ UNCHANGED <<mainVars, table, nextId, httpVars, uiVars>>

----------------------------------------------------------------------------
(* The page (function App).  editId is 0 for null: ids start at 1, and 0 and  *)
(* null are both falsy.  The amount field holds a decimal numeral or nothing. *)

Numeral(a)  == [empty |-> FALSE, val |-> a]        \* a.toString()
EmptyField  == [empty |-> TRUE, val |-> Float(0, 0)]
parseFloat(s) == s.val

FormDescriptions == {"", "a"}
FormAmounts      == {EmptyField, Numeral(Float(1, 230))}
FormTypes        == {"expense"}                 \* the select, left on its default

Event(e, m, st) == [event |-> e, method |-> m, status |-> st]

\* The form's own validation of its inputs, made before onSubmit is called:
\* both fields required, the amount min="0.01" step="0.01".
FormValid ==
    /\ description # ""
    /\ ~amount.empty
    /\ ~NotPositive(amount.val)
    /\ (amount.val.units > 0 \/ amount.val.mills >= 10)
    /\ amount.val.mills % 10 = 0

\* The test handleSubmit makes before it sends anything.
SubmitRefused ==
    description = "" \/ amount.empty \/ NotPositive(parseFloat(amount))

\* The request handleSubmit sends: if (editId) a PUT, else a POST.
SubmitRequestAlwaysPost ==
    Request("POST", CreatePath, Body(description, parseFloat(amount), type))
SubmitRequest ==
    LET transaction == Body(description, parseFloat(amount), type) IN
    IF editId # 0
        THEN Request("PUT", ByIdPath(ToString(editId)), transaction)
        ELSE Request("POST", CreatePath, transaction)

\* response.ok
Ok(status) == status \in 200..299

\* The server's handling of a request of the page.
Serve(r, f) ==
    CASE r.path = ListPath   -> \E order \in OrderByCreatedAtDesc(table) :
                                    corsHandler(r, getTransactions(r, f, order, 0))
      [] r.path = CreatePath -> /\ ReachesInsert(r, f) => nextId <= MaxId
                                /\ corsHandler(r, createTransaction(r, f))
      [] OTHER               -> corsHandler(r, handleTransactionByID(r, f, FALSE))

\* onChange of the three inputs.
Change ==
    /\ pc = "serving" /\ Idle
    /\ \E d \in FormDescriptions, a \in FormAmounts, ty \in FormTypes :
          /\ <<d, a, ty>> # <<description, amount, type>>
          /\ description' = d /\ amount' = a /\ type' = ty
    /\ UNCHANGED <<editId, transactions, inflight, fetching, uiLog>>
    /\ UNCHANGED <<mainVars, dbVars, httpVars>>

\* handleSubmit, up to its await.
Submit ==
    /\ pc = "serving" /\ Idle
    /\ FormValid
    /\ Len(inflight) < MaxInflight
    /\ IF SubmitRefused
         THEN /\ uiLog' = Event("alert", "", 0)
              /\ UNCHANGED inflight
         ELSE /\ inflight' = Append(inflight, SubmitRequest)
              /\ uiLog' = Event("submit", SubmitRequest.method, 0)
    /\ UNCHANGED <<description, amount, type, editId, transactions, fetching>>
    /\ UNCHANGED <<mainVars, dbVars, httpVars>>

\* handleSubmit from the response on: the server has answered the request.
SubmitAnswered ==
    /\ pc = "serving" /\ Idle
    /\ inflight # <<>>
    /\ LET r == Head(inflight) IN
       \E f \in WriteFaults(r, {"exec"}) :
          /\ Serve(r, f)
          /\ inflight' = Tail(inflight)
          /\ editId' = IF r.method = "PUT" THEN 0 ELSE editId
          /\ uiLog' = Event("response", r.method, resp'.status)
          /\ IF Ok(resp'.status)
               THEN /\ description' = "" /\ amount' = EmptyField /\ type' = "expense"
                    /\ fetching' = TRUE
               ELSE UNCHANGED <<description, amount, type, fetching>>
    /\ UNCHANGED <<transactions, mainVars>>

\* handleSubmit when its fetch is rejected: the request never completed.
SubmitFailed ==
    /\ pc = "serving" /\ Idle
    /\ inflight # <<>>
    /\ inflight' = Tail(inflight)
    /\ uiLog' = Event("failed", Head(inflight).method, 0)
    /\ UNCHANGED <<description, amount, type, editId, transactions, fetching>>
    /\ UNCHANGED <<mainVars, dbVars, httpVars>>

\* handleEdit, on a row the page shows.
Edit ==
    /\ pc = "serving" /\ Idle
    /\ \E n \in 1..Len(transactions) :
          LET transaction == transactions[n] IN
          /\ description' = transaction.Description
          /\ amount' = Numeral(transaction.Amount)
          /\ type' = transaction.Type
          /\ editId' = transaction.ID
    /\ UNCHANGED <<transactions, inflight, fetching, uiLog>>
    /\ UNCHANGED <<mainVars, dbVars, httpVars>>

\* The "Cancelar Edición" button.
CancelEdit ==
    /\ pc = "serving" /\ Idle
    /\ editId # 0
    /\ editId' = 0
    /\ UNCHANGED <<description, amount, type, transactions, inflight, fetching, uiLog>>
    /\ UNCHANGED <<mainVars, dbVars, httpVars>>

\* handleDelete, confirmed, on a row the page shows (the database answering).
Delete ==
    /\ pc = "serving" /\ Idle
    /\ \E n \in 1..Len(transactions) :
          LET r == Request("DELETE", ByIdPath(ToString(transactions[n].ID)), NoBody) IN
          /\ Serve(r, "none")
          /\ fetching' = (fetching \/ Ok(resp'.status))
    /\ UNCHANGED <<description, amount, type, editId, transactions, inflight, uiLog>>
    /\ UNCHANGED mainVars

\* fetchTransactions, answered (the database answering).
Fetched ==
    /\ pc = "serving" /\ Idle
    /\ fetching
    /\ LET r == Request("GET", ListPath, NoBody) IN
          /\ Serve(r, "none")
          /\ transactions' = IF Ok(resp'.status) THEN resp'.arr ELSE transactions
    /\ fetching' = FALSE
    /\ UNCHANGED <<description, amount, type, editId, inflight, uiLog>>
    /\ UNCHANGED mainVars

----------------------------------------------------------------------------
(* Specifications *)

InitData ==
    /\ table = {} /\ nextId = 1 /\ now = 1
    /\ req = NoRequest /\ resp = NoResponse /\ fault = "none"
    /\ sent = [x \in 1..MaxId |-> NoBody] /\ deleted = {}

InitForm ==
    /\ description = "" /\ amount = EmptyField /\ type = "expense" /\ editId = 0
    /\ transactions = <<>> /\ inflight = <<>> /\ fetching = FALSE
    /\ uiLog = Event("none", "", 0)

\* The process starts.
InitMain ==
    /\ pc = "connect" /\ i = 0 /\ err = "nil" /\ db = "nil"
    /\ attempts = 0 /\ slept = 0 /\ schema = FALSE /\ fatalMsg = "none"
    /\ InitData /\ InitForm

NextMain == Connect \/ Sleep \/ AfterLoop \/ CreateTable \/ ListenAndServe

SpecMain == InitMain /\ [][NextMain]_vars

\* The server has started (here on its first attempt) over an empty table.
Init ==
    /\ pc = "serving" /\ i = 0 /\ err = "nil" /\ db = "connected"
    /\ attempts = 1 /\ slept = 0 /\ schema = TRUE /\ fatalMsg = "none"
    /\ InitData /\ InitForm

Next == ListTransactions \/ CreateTransaction \/ TransactionByID \/ Tick \/ Finish

Spec == Init /\ [][Next]_vars

\* The page has been opened (useEffect has called fetchTransactions) on a server
\* that has started.
InitApp ==
    /\ pc = "serving" /\ i = 0 /\ err = "nil" /\ db = "connected"
    /\ attempts = 1 /\ slept = 0 /\ schema = TRUE /\ fatalMsg = "none"
    /\ InitData
    /\ description = "" /\ amount = EmptyField /\ type = "expense" /\ editId = 0
    /\ transactions = <<>> /\ inflight = <<>> /\ fetching = TRUE
    /\ uiLog = Event("none", "", 0)

NextApp ==
    Change \/ Submit \/ SubmitAnswered \/ SubmitFailed \/ Edit \/ CancelEdit
        \/ Delete \/ Fetched \/ Finish

SpecApp == InitApp /\ [][NextApp]_vars

----------------------------------------------------------------------------
(* Properties *)

AmountLeqZero(a) == a.units < 0 \/ (a.units = 0 /\ a.mills = 0)
StoredPositive(n) == n.units > 0 \/ (n.units = 0 /\ n.cents > 0)
KnownType(ty) == ty \in {"income", "expense"}
ErrorStatus == {400, 404, 405, 500}

IsCreate(r) == r.method = "POST" /\ r.path = CreatePath
IsList(r)   == r.method = "GET" /\ r.path = ListPath
IsById(r, m, id) == r.method = m /\ r.path = ByIdPath(ToString(id))

FieldsInvalid(b) ==
    b.description = "" \/ AmountLeqZero(b.amount) \/ ~KnownType(b.type)

\* C1: a POST /transaction whose decoded body has an empty description, an
\* amount <= 0 or a type other than income and expense is answered 400, and the
\* table is after the request what it was before it.
C1_InvalidCreateRejected ==
    [][(IsCreate(req') /\ req'.body.ok /\ FieldsInvalid(req'.body))
            => (resp'.status = 400 /\ table' = table)]_vars

C1_Witness ==
    /\ IsCreate(req) /\ req.body.ok /\ FieldsInvalid(req.body)
    /\ req.body.description # "" /\ KnownType(req.body.type)
    /\ resp.status = 400
    /\ table # {}

\* C2: every row of the table has a stored amount > 0 and a type in {income,
\* expense}, no two rows share an id, and no request changes the id of a row
\* (a step adds at most a row with the sequence's next id, and a row that stays
\* keeps its id and its created_at).
C2_RowsWellFormed ==
    [][/\ \A row \in table' : StoredPositive(row.amount) /\ KnownType(row.type)
       /\ \A r1, r2 \in table' : r1.id = r2.id => r1 = r2
       /\ \A row \in table' :
            \/ row.id = nextId /\ RowsWithId(row.id) = {}
            \/ \E old \in table : old.id = row.id /\ old.created_at = row.created_at
      ]_vars

\* C3: a GET /transaction/{id} answered 200, for an id that a POST created and
\* that has not been updated or deleted since, returns the description, amount
\* and type that the POST was sent.
C3_RoundTrip ==
    \A id \in DOMAIN sent :
        (IsById(req, "GET", id) /\ resp.status = 200 /\ sent[id].ok)
            => /\ resp.obj.Description = sent[id].description
               /\ resp.obj.Amount = sent[id].amount
               /\ resp.obj.Type = sent[id].type

\* C4: a GET /transactions answered 200 returns an array, never null, that
\* holds exactly the rows of the table, a row created later (with a higher id)
\* before every row created earlier.
C4_ListNewestFirst ==
    (IsList(req) /\ resp.status = 200)
        => /\ resp.kind = "array"
           /\ Len(resp.arr) = Cardinality(table)
           /\ {resp.arr[n] : n \in 1..Len(resp.arr)} = {ScanRow(row) : row \in table}
           /\ \A a, b \in 1..Len(resp.arr) :
                resp.arr[a].ID > resp.arr[b].ID => a < b

C6_DeletedStaysDeleted ==
    \A id \in deleted :
        /\ RowsWithId(id) = {}
        /\ IsById(req, "GET", id)
              => /\ resp.status # 200
                 /\ fault = "none" => resp.status = 404

C6_Witness ==
    \E id \in deleted :
        /\ IsById(req, "GET", id) /\ resp.status = 404
        /\ \E row \in table : row.id > id

AllAttemptsFailed == attempts = MaxAttempts /\ db # "connected"
FailedAttempts    == attempts - (IF db = "connected" THEN 1 ELSE 0)

\* What holds of the startup whichever log.Fatal ends it: at most 10 attempts;
\* a 5-second sleep after each failed attempt and none elsewhere; no attempt
\* once one has succeeded; the schema statement and the listener only after a
\* successful attempt, the listener only after the schema statement has run; a
\* failed schema statement is fatal.
StartupOrder ==
    /\ attempts <= MaxAttempts
    /\ slept = RetryDelay * (IF pc = "sleep" THEN FailedAttempts - 1 ELSE FailedAttempts)
    /\ db = "connected" => pc \notin {"connect", "sleep"}
    /\ pc \in {"schema", "listen", "serving"} => db = "connected" /\ fatalMsg = "none"
    /\ pc \in {"listen", "serving"} => schema
    /\ err = "exec" => pc = "fatal"

\* C7 as stated: the startup order, and the process ends fatally only when all
\* 10 attempts have failed or the schema statement has failed.
C7_FatalOnlyConnectOrSchema ==
    /\ StartupOrder
    /\ pc = "fatal" => (AllAttemptsFailed \/ err = "exec")

\* C7, amended: the startup order, and the process ends fatally only when all
\* 10 attempts have failed, the schema statement has failed, or ListenAndServe
\* has returned an error.
C7_FatalConnectSchemaOrListen ==
    /\ StartupOrder
    /\ pc = "fatal" => (AllAttemptsFailed \/ err = "exec" \/ err = "listen")
    /\ err = "listen" => pc = "fatal" /\ db = "connected" /\ schema

C7_Witness ==
    pc = "fatal" /\ AllAttemptsFailed /\ slept = RetryDelay * MaxAttempts

\* C8: a request answered 400, 404, 405 or 500 leaves the table as it was; a
\* step that changes the table is a request answered 200 or 201.
C8_ErrorsChangeNothing ==
    [][/\ resp'.status \in ErrorStatus => table' = table
       /\ table' # table => resp'.status \in {200, 201}]_vars

C8_Witness ==
    /\ resp.status = 500 /\ fault = "exec" /\ req.method = "DELETE"
    /\ \E id \in 1..MaxId : IsById(req, "DELETE", id) /\ RowsWithId(id) # {}

\* C9: a GET /transactions that meets a driver error at any stage (the query,
\* a row's Scan, the advance to the next row) is answered 500.
C9_ListErrorsAre500 ==
    (IsList(req) /\ fault # "none") => resp.status = 500

\* The request a submit is to send, from the form as it is when submitted.
ExpectedRequest ==
    IF editId # 0
        THEN Request("PUT", <<"", "transaction", ToString(editId)>>,
                     Body(description, amount.val, type))
        ELSE Request("POST", <<"", "transaction">>,
                     Body(description, amount.val, type))

\* C10: a submit sends exactly one request, a PUT to /transaction/{editId} when
\* editId is set and a POST to /transaction otherwise; when the response to a
\* PUT arrives editId is cleared whatever the status, and with a status that is
\* not 2xx the fields are left as they are; when the fetch fails editId is left
\* as it is.
C10_SubmitAndEditId ==
    [][/\ Len(inflight') <= Len(inflight) + 1
       /\ Len(inflight') > Len(inflight)
            => inflight' = Append(inflight, ExpectedRequest)
       /\ (Len(inflight') < Len(inflight) /\ uiLog'.event = "response"
                /\ Head(inflight).method = "PUT")
            => /\ editId' = 0
               /\ resp'.status \notin 200..299
                    => /\ description' = description
                       /\ amount' = amount
                       /\ type' = type
       /\ (Len(inflight') < Len(inflight) /\ uiLog'.event = "failed")
            => editId' = editId
      ]_vars

C10_Witness ==
    /\ uiLog = Event("response", "PUT", 404)
    /\ editId = 0
    /\ description # "" /\ ~amount.empty

====
